---- MODULE Spec2Model ----
(***************************************************************************)
(* Push-notification cron worker (src/index.js).                           *)
(*                                                                         *)
(* The minute cron job calls processPushNotifications() on every tick.     *)
(* node-cron does not wait for the promise of the previous tick, so a tick *)
(* that fires while an earlier invocation is suspended at an `await`       *)
(* starts a second invocation.  Each invocation in flight is a "cycle";    *)
(* between two awaits a cycle runs atomically (single JavaScript thread).  *)
(* Every action below is one await: the collaborator call takes effect and *)
(* the handler runs on to the next await (or to its return).               *)
(*                                                                         *)
(* Collaborators: the queue store and the device registry apply every      *)
(* insert/update/delete they are sent and do not throw (supabase-js        *)
(* reports errors in the returned object); a select may report an error;   *)
(* the transport resolves or rejects with a status code.                   *)
(*                                                                         *)
(* Four specifications share the variables:                                *)
(*   Spec          the batch processor on a started service                *)
(*   SpecDaily     the hourly job, runDailyNotifications()                 *)
(*   SpecShutdown  both jobs with SIGINT/SIGTERM and the exit timer        *)
(*   SpecStartup   the module body, from the CONFIG literal on             *)
(***************************************************************************)
EXTENDS Integers, Sequences, FiniteSets, TLC

\* ---- bounds ------------------------------------------------------------
NumRecords == 2          \* notification records in the queue store
NumCycles == 2           \* invocations of processPushNotifications in flight
MaxRetriesBound == 1     \* max_retries of a record ranges over 0..MaxRetriesBound
MaxBatchLimit == 2       \* CONFIG.BATCH_LIMIT ranges over 1..MaxBatchLimit
MaxCeiling == 2          \* CONFIG.RATE_LIMIT_MAX_QUEUE ranges over 1..MaxCeiling
MaxTokens == 2           \* rows of user_push_tokens at start
MaxTicks == 2            \* firings of the minute cron job
MaxLoans == 2            \* rows of gear_requests
MaxGears == 1            \* gear rows joined to one loan record
MaxDailyRuns == 1        \* firings of the hourly cron job

\* ---- program constants ---------------------------------------------------
DueSoonDays == 2         \* twoDaysFromNow = now + 2 * 24 h
OfficeClosingHour == 8   \* currentHour === 8
GoodMorningHour == 9     \* currentHour === 9

Records == 1..NumRecords
Cycles == 1..NumCycles
Users == {"u1", "u2"}

Max(a, b) == IF a >= b THEN a ELSE b
Min(a, b) == IF a <= b THEN a ELSE b

\* ---- device registry rows ------------------------------------------------
\* A row of user_push_tokens: the owner and the serialized descriptor.
\* "ep1", "ep2" are JSON objects with an endpoint, "noendpoint" is JSON
\* without an endpoint field, "garbage" is not JSON.  All rows belong to u1;
\* u2 is a recipient without devices.
TokenUniverse ==
    { [user_id |-> "u1", token |-> t] : t \in {"ep1", "ep2", "noendpoint", "garbage"} }

\* JSON.parse(row.token) throws a SyntaxError
ParseThrows(token) == token = "garbage"

\* subscription && subscription.endpoint
HasEndpoint(token) == token \in {"ep1", "ep2"}

\* outcomes of webPush.sendNotification: resolved, rejected with statusCode
\* 410 or 404, rejected with anything else
SendOutcomes == {"ok", "410", "404", "transient"}

\* the test of the catch block with the 404 case left out
IsInvalidTokenOnly410(outcome) == outcome = "410"

\* error.statusCode === 410 || error.statusCode === 404
IsInvalidToken(outcome) == outcome \in {"410", "404"}

VARIABLES
    CONFIG,              \* [BATCH_LIMIT, RATE_LIMIT_MAX_QUEUE], fixed at start
    rateLimitState,      \* [queueSize]
    queue,               \* push_notification_queue: Records -> row
    user_push_tokens,    \* set of registry rows
    cycle,               \* Cycles -> the locals of one invocation
    returned,            \* what the step just taken returned to the cron callback, if anything
    ticks,               \* firings of the minute cron job so far
    attempts,            \* history: Records -> number of mark-processing updates
    zeroSubs,            \* history: Cycles -> records this cycle found without devices
    noDevices,           \* history: records some cycle found without devices
    gone,                \* history: descriptors the transport has answered 410/404 for
    faulted,             \* history: Cycles -> records this cycle caught a fault on
    env,                 \* process.env: required variable -> is it set
    proc,                \* the process: "loading", "running", "exit0", "exit1"
    cronJobs,            \* the cronJobs array: each job "scheduled" or "stopped"
    server,              \* the health server: "none", "listening", "closed"
    exitTimer,           \* the timer set by gracefulShutdown is pending
    gear_requests,       \* the loan records, in table order
    daily,               \* the locals of the invocation of runDailyNotifications
    enqueued,            \* history: inserts into the queue issued by the current reminder run
    selected,            \* history: reminder kinds whose select returned data in the current run
    rejected,            \* history: positions in enqueued of the inserts the store answered with an error
    dailyRuns            \* firings of the hourly cron job so far

serviceVars == <<env, proc, cronJobs, server, exitTimer>>
dailyVars == <<gear_requests, daily, enqueued, selected, rejected, dailyRuns>>
batchVars == <<rateLimitState, queue, user_push_tokens, cycle, returned,
               ticks, attempts, zeroSubs, noDevices, gone, faulted>>

vars == <<CONFIG, batchVars, serviceVars, dailyVars>>

\* ---- the batch query -----------------------------------------------------
\* .order('created_at', { ascending: true })
RECURSIVE OrderByCreatedAt(_, _)
OrderByCreatedAt(q, S) ==
    IF S = {} THEN <<>>
    ELSE LET r == CHOOSE x \in S : \A y \in S : q[x].created_at <= q[y].created_at
         IN  <<r>> \o OrderByCreatedAt(q, S \ {r})

\* a select without a row limit
LimitOff(s, n) == s

\* .limit(n)
Limit(s, n) == SubSeq(s, 1, Min(n, Len(s)))

\* the row object the select hands to the handler: a copy, not a reference
Snapshot(q, r) ==
    [id |-> r, user_id |-> q[r].user_id,
     retry_count |-> q[r].retry_count, max_retries |-> q[r].max_retries]

\* the batch query with the order reversed: newest first
RECURSIVE OrderByCreatedAtDesc(_, _)
OrderByCreatedAtDesc(q, S) ==
    IF S = {} THEN <<>>
    ELSE LET r == CHOOSE x \in S : \A y \in S : q[x].created_at >= q[y].created_at
         IN  <<r>> \o OrderByCreatedAtDesc(q, S \ {r})

SelectPendingNewestFirst(q, limit) ==
    LET ids == Limit(OrderByCreatedAtDesc(q, {r \in Records : q[r].status = "pending"}), limit)
    IN  [i \in 1..Len(ids) |-> Snapshot(q, ids[i])]

\* .select('*').eq('status','pending').order('created_at').limit(BATCH_LIMIT)
SelectPending(q, limit) ==
    LET ids == Limit(OrderByCreatedAt(q, {r \in Records : q[r].status = "pending"}), limit)
    IN  [i \in 1..Len(ids) |-> Snapshot(q, ids[i])]

\* the admission test with the comparison off by one
RateLimitedStrict(size, ceiling) == size > ceiling

\* rateLimitState.queueSize >= CONFIG.RATE_LIMIT_MAX_QUEUE
RateLimited(size, ceiling) == size >= ceiling

\* ---- cycle locals --------------------------------------------------------
IdleCycle ==
    [pc |-> "idle", batch |-> <<>>, idx |-> 0, tokenRows |-> <<>>, tidx |-> 0,
     tokenSent |-> 0, error |-> "none", processed |-> 0, sent |-> 0, failed |-> 0,
     why |-> "none"]

\* the notification the for-loop is at
Notification(cy) == cy.batch[cy.idx]

RateLimitResult == [processed |-> 0, sent |-> 0, failed |-> 0, message |-> "RateLimitExceeded"]
FetchErrorResult == [processed |-> 0, sent |-> 0, failed |-> 0, message |-> "FetchFailed"]
NoPendingResult == [processed |-> 0, sent |-> 0, failed |-> 0, message |-> "NoPending"]
NoResult == [processed |-> 0, sent |-> 0, failed |-> 0, message |-> "none"]

\* ---- process environment and module-level state ---------------------------
\* the names validateEnvironment requires
RequiredEnv ==
    {"NEXT_PUBLIC_SUPABASE_URL", "SUPABASE_SERVICE_ROLE_KEY",
     "VAPID_PRIVATE_KEY", "NEXT_PUBLIC_VAPID_PUBLIC_KEY"}

\* the locals of runDailyNotifications while it is not running
IdleDaily == [pc |-> "idle", currentHour |-> 0, todo |-> <<>>]

\* The CONFIG object as its literal builds it: BATCH_LIMIT and
\* RATE_LIMIT_MAX_QUEUE parsed from the environment, and no VAPID_PUBLIC_KEY or
\* VAPID_PRIVATE_KEY property (FALSE: reading it gives undefined).
ConfigLiteral ==
    [BATCH_LIMIT : 1..MaxBatchLimit, RATE_LIMIT_MAX_QUEUE : 1..MaxCeiling,
     VAPID_PUBLIC_KEY : {FALSE}, VAPID_PRIVATE_KEY : {FALSE}]

\* the CONFIG object after the two assignments that follow the client setup
ConfigExported(cfg, e) ==
    [cfg EXCEPT !.VAPID_PUBLIC_KEY = e["NEXT_PUBLIC_VAPID_PUBLIC_KEY"],
                !.VAPID_PRIVATE_KEY = e["VAPID_PRIVATE_KEY"]]

\* ---- initial state -------------------------------------------------------
\* Records are created pending with retry_count 0 and the column default of
\* max_retries.  Record ids are opaque, so created_at is fixed against the id
\* order (record 1 is the newest).
InitStores ==
    /\ rateLimitState = [queueSize |-> 0]
    /\ \E u \in [Records -> Users], m \in 0..MaxRetriesBound :
          queue = [r \in Records |->
                     [status |-> "pending", retry_count |-> 0, max_retries |-> m,
                      user_id |-> u[r], created_at |-> NumRecords + 1 - r,
                      error_message |-> "none"]]
    /\ user_push_tokens \in {T \in SUBSET TokenUniverse : Cardinality(T) <= MaxTokens}
    /\ cycle = [c \in Cycles |-> IdleCycle]
    /\ returned = NoResult
    /\ ticks = 0
    /\ attempts = [r \in Records |-> 0]
    /\ zeroSubs = [c \in Cycles |-> {}]
    /\ noDevices = {}
    /\ gone = {}
    /\ faulted = [c \in Cycles |-> {}]

\* the module body has run to its end with every required variable set: both
\* jobs are scheduled, the health server listens, no signal has arrived
InitStarted ==
    /\ env = [k \in RequiredEnv |-> TRUE]
    /\ CONFIG \in {ConfigExported(cfg, env) : cfg \in ConfigLiteral}
    /\ proc = "running"
    /\ cronJobs = <<"scheduled", "scheduled">>
    /\ server = "listening"
    /\ exitTimer = FALSE

\* runDailyNotifications has not run
InitDailyIdle ==
    /\ daily = IdleDaily
    /\ enqueued = <<>>
    /\ selected = {}
    /\ rejected = {}
    /\ dailyRuns = 0

\* The batch processor is studied on a started service without loan records.
Init ==
    /\ InitStarted
    /\ InitStores
    /\ gear_requests = <<>>
    /\ InitDailyIdle

\* ---- cron tick: processPushNotifications() starts --------------------------
\* Invocation slots are interchangeable: a tick takes the lowest free one.
Tick(c) ==
    /\ proc = "running"
    /\ cronJobs[1] = "scheduled"
    /\ cycle[c].pc = "idle"
    /\ \A d \in Cycles : d < c => cycle[d].pc # "idle"
    /\ ticks < MaxTicks
    /\ ticks' = ticks + 1
    /\ IF RateLimited(rateLimitState.queueSize, CONFIG.RATE_LIMIT_MAX_QUEUE)
       THEN /\ returned' = RateLimitResult
            /\ UNCHANGED cycle
       ELSE /\ cycle' = [cycle EXCEPT ![c].pc = "selectPending"]
            /\ returned' = NoResult
    /\ UNCHANGED <<CONFIG, rateLimitState, queue, user_push_tokens, attempts, zeroSubs, noDevices, gone,
                   faulted, serviceVars, dailyVars>>

\* ---- await select pending --------------------------------------------------
FetchPending(c) ==
    /\ proc = "running"
    /\ cycle[c].pc = "selectPending"
    /\ \E fetchError \in BOOLEAN :
         LET data == SelectPending(queue, CONFIG.BATCH_LIMIT) IN
         IF fetchError
         THEN /\ returned' = FetchErrorResult
              /\ cycle' = [cycle EXCEPT ![c] = IdleCycle]
              /\ UNCHANGED rateLimitState
         ELSE IF Len(data) = 0
         THEN /\ returned' = NoPendingResult
              /\ cycle' = [cycle EXCEPT ![c] = IdleCycle]
              /\ UNCHANGED rateLimitState
         ELSE /\ rateLimitState' = [queueSize |-> Len(data)]
              /\ cycle' = [cycle EXCEPT ![c] =
                             [IdleCycle EXCEPT !.pc = "markProcessing",
                                               !.batch = data, !.idx = 1]]
              /\ returned' = NoResult
    /\ UNCHANGED <<CONFIG, ticks, queue, user_push_tokens, attempts, zeroSubs, noDevices, gone,
                   faulted, serviceVars, dailyVars>>

\* ---- leaving one iteration of the for-loop over the batch -------------------
\* cy holds the counters as the iteration left them.  After the last
\* notification the handler builds the result, releases the rate limiter
\* (Math.max(0, queueSize - processed)) and returns.
EndIteration(c, cy) ==
    IF cy.idx < Len(cy.batch)
    THEN /\ cycle' = [cycle EXCEPT ![c] =
                        [cy EXCEPT !.pc = "markProcessing", !.idx = @ + 1,
                                   !.tokenRows = <<>>, !.tidx = 0,
                                   !.tokenSent = 0, !.error = "none",
                                   !.why = "none"]]
         /\ returned' = NoResult
         /\ faulted' = IF cy.why = "Fault"
                       THEN [faulted EXCEPT ![c] = @ \cup {Notification(cy).id}]
                       ELSE faulted
         /\ UNCHANGED <<rateLimitState, zeroSubs>>
    ELSE /\ cycle' = [cycle EXCEPT ![c] = IdleCycle]
         /\ rateLimitState' =
               [queueSize |-> Max(0, rateLimitState.queueSize - cy.processed)]
         /\ returned' = [processed |-> cy.processed, sent |-> cy.sent,
                           failed |-> cy.failed, message |-> "Processed"]
         /\ zeroSubs' = [zeroSubs EXCEPT ![c] = {}]
         /\ faulted' = [faulted EXCEPT ![c] = {}]

\* ---- the for-loop over tokenRows, from row k to the next await --------------
\* A row that parses but has no endpoint is passed over without a delivery
\* and without counting.
RECURSIVE NextRow(_, _)
NextRow(rows, k) ==
    IF k > Len(rows) THEN k
    ELSE IF ~ParseThrows(rows[k].token) /\ ~HasEndpoint(rows[k].token)
         THEN NextRow(rows, k + 1)
         ELSE k

\* notification.retry_count < notification.max_retries, on the fetched copy
RetryAllowed(n) == n.retry_count < n.max_retries

\* The locals at the next await.  A row that does not parse throws inside the
\* inner try; its catch handler evaluates JSON.parse(row.token) again, which
\* throws out of the inner loop into the outer catch (markFailed).
ContinueTokenLoop(cy, k) ==
    LET j == NextRow(cy.tokenRows, k) IN
    IF j > Len(cy.tokenRows)
    THEN IF cy.tokenSent > 0
         THEN [cy EXCEPT !.pc = "markSent", !.tidx = j]
         ELSE IF RetryAllowed(Notification(cy))
         THEN [cy EXCEPT !.pc = "resetPending", !.tidx = j]
         ELSE [cy EXCEPT !.pc = "markFailed", !.why = "AllTokensFailed", !.tidx = j]
    ELSE IF ParseThrows(cy.tokenRows[j].token)
    THEN [cy EXCEPT !.pc = "markFailed", !.why = "Fault", !.tidx = j]
    ELSE [cy EXCEPT !.pc = "send", !.tidx = j]

\* ---- await update status = processing, retry_count + 1 ---------------------
MarkProcessing(c) ==
    /\ proc = "running"
    /\ cycle[c].pc = "markProcessing"
    /\ LET n == Notification(cycle[c]) IN
         /\ queue' = [queue EXCEPT ![n.id].status = "processing",
                                   ![n.id].retry_count = n.retry_count + 1]
         /\ attempts' = [attempts EXCEPT ![n.id] = @ + 1]
    /\ cycle' = [cycle EXCEPT ![c].pc = "selectTokens"]
    /\ returned' = NoResult
    /\ UNCHANGED <<CONFIG, ticks, rateLimitState, user_push_tokens, zeroSubs, noDevices, gone,
                   faulted, serviceVars, dailyVars>>

\* all orders in which a select without order may return the rows of S
RowOrders(S) ==
    {s \in [1..Cardinality(S) -> S] : \A i, j \in 1..Cardinality(S) : s[i] = s[j] => i = j}

\* ---- await select tokens of the recipient ----------------------------------
FetchTokens(c) ==
    /\ proc = "running"
    /\ cycle[c].pc = "selectTokens"
    /\ LET n == Notification(cycle[c])
           rows == {row \in user_push_tokens : row.user_id = n.user_id}
       IN  \/ \* tokenError
              /\ cycle' = [cycle EXCEPT ![c].pc = "markFailed",
                                        ![c].why = "TokenFetchError"]
              /\ UNCHANGED <<zeroSubs, noDevices>>
           \/ \* no rows
              /\ rows = {}
              /\ cycle' = [cycle EXCEPT ![c].pc = "markFailed",
                                        ![c].why = "NoPushTokens"]
              /\ zeroSubs' = [zeroSubs EXCEPT ![c] = @ \cup {n.id}]
              /\ noDevices' = noDevices \cup {n.id}
           \/ /\ rows # {}
              /\ \E tokenRows \in RowOrders(rows) :
                   cycle' = [cycle EXCEPT ![c] =
                      ContinueTokenLoop([cycle[c] EXCEPT !.tokenRows = tokenRows,
                                                         !.tokenSent = 0], 1)]
              /\ UNCHANGED <<zeroSubs, noDevices>>
    /\ returned' = NoResult
    /\ UNCHANGED <<CONFIG, ticks, rateLimitState, queue, user_push_tokens, attempts, gone,
                   faulted, serviceVars, dailyVars>>

\* ---- await webPush.sendNotification ----------------------------------------
Send(c) ==
    /\ proc = "running"
    /\ cycle[c].pc = "send"
    /\ \E outcome \in SendOutcomes :
         LET cy == cycle[c] IN
         /\ cycle' = [cycle EXCEPT ![c] =
               IF outcome = "ok"
               THEN ContinueTokenLoop([cy EXCEPT !.tokenSent = @ + 1, !.error = "none"],
                                      cy.tidx + 1)
               ELSE IF IsInvalidToken(outcome)
               THEN [cy EXCEPT !.pc = "deleteToken", !.error = outcome]
               ELSE ContinueTokenLoop([cy EXCEPT !.error = outcome], cy.tidx + 1)]
         /\ gone' = IF outcome \in {"410", "404"}
                    THEN gone \cup {cy.tokenRows[cy.tidx].token} ELSE gone
    /\ returned' = NoResult
    /\ UNCHANGED <<CONFIG, ticks, rateLimitState, queue, user_push_tokens, attempts,
                   zeroSubs, noDevices,
                   faulted, serviceVars, dailyVars>>

\* ---- await delete().eq('token', row.token) ---------------------------------
DeleteToken(c) ==
    /\ proc = "running"
    /\ cycle[c].pc = "deleteToken"
    /\ LET cy == cycle[c] IN
         /\ user_push_tokens' =
               {row \in user_push_tokens : row.token # cy.tokenRows[cy.tidx].token}
         /\ cycle' = [cycle EXCEPT ![c] =
                        ContinueTokenLoop([cy EXCEPT !.error = "none"], cy.tidx + 1)]
    /\ returned' = NoResult
    /\ UNCHANGED <<CONFIG, ticks, rateLimitState, queue, attempts, zeroSubs, noDevices, gone,
                   faulted, serviceVars, dailyVars>>

\* ---- await update status = sent --------------------------------------------
MarkSent(c) ==
    /\ proc = "running"
    /\ cycle[c].pc = "markSent"
    /\ LET cy == cycle[c] IN
         /\ queue' = [queue EXCEPT ![Notification(cy).id].status = "sent"]
         /\ EndIteration(c, [cy EXCEPT !.sent = @ + 1, !.processed = @ + 1])
    /\ UNCHANGED <<CONFIG, ticks, user_push_tokens, attempts, noDevices, gone,
                   serviceVars, dailyVars>>

\* ---- await update status = pending, error_message --------------------------
ResetPending(c) ==
    /\ proc = "running"
    /\ cycle[c].pc = "resetPending"
    /\ LET cy == cycle[c] IN
         /\ queue' = [queue EXCEPT ![Notification(cy).id].status = "pending",
                                   ![Notification(cy).id].error_message = "AllTokensFailed"]
         /\ EndIteration(c, [cy EXCEPT !.processed = @ + 1])
    /\ UNCHANGED <<CONFIG, ticks, user_push_tokens, attempts, noDevices, gone,
                   serviceVars, dailyVars>>

\* the two early `continue` paths skip processed++
CountsAsProcessed(why) == why \notin {"TokenFetchError", "NoPushTokens"}

\* ---- await markFailed(notification.id, errorMessage) -----------------------
MarkFailed(c) ==
    /\ proc = "running"
    /\ cycle[c].pc = "markFailed"
    /\ LET cy == cycle[c] IN
         /\ queue' = [queue EXCEPT ![Notification(cy).id].status = "failed",
                                   ![Notification(cy).id].error_message = cy.why]
         /\ EndIteration(c, [cy EXCEPT !.failed = @ + 1,
                                       !.processed = IF CountsAsProcessed(cy.why)
                                                     THEN @ + 1 ELSE @])
    /\ UNCHANGED <<CONFIG, ticks, user_push_tokens, attempts, noDevices, gone,
                   serviceVars, dailyVars>>

Next ==
    \E c \in Cycles :
        \/ Tick(c)
        \/ FetchPending(c)
        \/ MarkProcessing(c)
        \/ FetchTokens(c)
        \/ Send(c)
        \/ DeleteToken(c)
        \/ MarkSent(c)
        \/ ResetPending(c)
        \/ MarkFailed(c)

Spec == Init /\ [][Next]_vars

TypeOK ==
    /\ rateLimitState.queueSize \in 0..MaxBatchLimit
    /\ \A r \in Records : queue[r].status \in {"pending", "processing", "sent", "failed"}

\* ======================= reminder generator ================================
\* runDailyNotifications().  A loan record carries its recipient, its status,
\* its due date counted in days from today (negative: before today) and the
\* names of its joined gear rows; "" stands for a gear row without a name.
\* An insert is recorded in `enqueued` when it is issued; the notification's
\* body is kept as the list of names that join(', ') writes into it.
GearNameUniverse == {"Tripod", "Lens", ""}

GearLists == UNION { [1..n -> GearNameUniverse] : n \in 0..MaxGears }

DueDates == {-1, 0, DueSoonDays, DueSoonDays + 1}

LoanRecords ==
    [user_id : Users, status : {"Approved", "Returned"}, due_date : DueDates,
     gears : GearLists]

LoanTables == UNION { [1..n -> LoanRecords] : n \in 0..MaxLoans }

\* the hours a tick can fall on: the two gated hours and another one
Hours == {OfficeClosingHour, GoodMorningHour, GoodMorningHour + 1}

\* the rows of profiles with status Active
ActiveProfiles == <<"u1", "u2">>

Range(s) == {s[i] : i \in 1..Len(s)}

\* .eq('status', 'Approved').lt('due_date', today)
IsOverdue(request) == request.status = "Approved" /\ request.due_date < 0
SelectOverdue(requests) == SelectSeq(requests, IsOverdue)

\* .eq('status', 'Approved').gte('due_date', today).lte('due_date', twoDaysFromNow)
IsDueSoon(request) ==
    /\ request.status = "Approved"
    /\ request.due_date >= 0
    /\ request.due_date <= DueSoonDays
SelectDueSoon(requests) == SelectSeq(requests, IsDueSoon)

\* request.gears?.map(g => g.gears?.name).filter(Boolean) || []
IsName(name) == name # ""
GearNames(request) == SelectSeq(request.gears, IsName)

\* the forEach that fills userOverdue / userDueSoon: one entry per user_id in
\* the order the ids first occur (Object.entries), names in push order
RECURSIVE GroupByUser(_, _)
GroupByUser(data, acc) ==
    IF data = <<>> THEN acc
    ELSE LET request == Head(data)
             at == {i \in 1..Len(acc) : acc[i].user_id = request.user_id}
         IN  IF at = {}
             THEN GroupByUser(Tail(data),
                     Append(acc, [user_id |-> request.user_id,
                                  gearNames |-> GearNames(request)]))
             ELSE GroupByUser(Tail(data),
                     [acc EXCEPT ![CHOOSE i \in at : TRUE].gearNames =
                                        @ \o GearNames(request)])

\* the list spread without the Set: every name as often as it was pushed
KeepDuplicates(names) == names

\* [...new Set(gearNames)]: first occurrences, in order
RECURSIVE Dedupe(_)
Dedupe(names) ==
    IF names = <<>> THEN <<>>
    ELSE LET front == Dedupe(SubSeq(names, 1, Len(names) - 1))
             last == names[Len(names)]
         IN  IF last \in Range(front) THEN front ELSE Append(front, last)

\* for (const user of allUsers): one entry per profile, no names
Broadcast(allUsers) ==
    [i \in 1..Len(allUsers) |-> [user_id |-> allUsers[i], gearNames |-> <<>>]]

\* where the handler goes after the due-soon part and after the 8 AM part
AfterDueSoon(hour) ==
    IF hour = OfficeClosingHour THEN "selectClosing"
    ELSE IF hour = GoodMorningHour THEN "selectMorning" ELSE "idle"

AfterClosing(hour) == IF hour = GoodMorningHour THEN "selectMorning" ELSE "idle"

\* the handler moves on to the await named pc, or returns
Goto(d, pc) == IF pc = "idle" THEN IdleDaily ELSE [d EXCEPT !.pc = pc, !.todo = <<>>]

\* a select that reports an error and ends the run there
OnFetchErrorAbort(d, after) == IdleDaily

\* if (overdueError) / if (dueSoonError): console.error, then fall through to
\* the statements after the else-if
OnFetchError(d, after) == Goto(d, after)

\* the for-loop over the grouped entries starts, or is skipped when empty
StartInserts(d, pc, entries, after) ==
    IF Len(entries) > 0 THEN [d EXCEPT !.pc = pc, !.todo = entries] ELSE Goto(d, after)

\* ---- hourly cron tick: runDailyNotifications() starts ----------------------
DailyTick ==
    /\ proc = "running"
    /\ cronJobs[2] = "scheduled"
    /\ daily.pc = "idle"
    /\ dailyRuns < MaxDailyRuns
    /\ dailyRuns' = dailyRuns + 1
    /\ \E hour \in Hours :
         daily' = [pc |-> "selectOverdue", currentHour |-> hour, todo |-> <<>>]
    /\ enqueued' = <<>>
    /\ selected' = {}
    /\ rejected' = {}
    /\ UNCHANGED <<CONFIG, batchVars, serviceVars, gear_requests>>

\* ---- await select overdue gear_requests ------------------------------------
FetchOverdue ==
    /\ proc = "running"
    /\ daily.pc = "selectOverdue"
    /\ \E overdueError \in BOOLEAN :
         LET overdueGear == SelectOverdue(gear_requests) IN
         IF overdueError
         THEN /\ daily' = OnFetchError(daily, "selectDueSoon")
              /\ UNCHANGED selected
         ELSE /\ daily' = StartInserts(daily, "insertOverdue",
                                       GroupByUser(overdueGear, <<>>), "selectDueSoon")
              /\ selected' = selected \cup {"overdue_reminder"}
    /\ UNCHANGED <<CONFIG, batchVars, serviceVars, gear_requests, enqueued, rejected,
                   dailyRuns>>

\* ---- await insert: one iteration of a for-loop over the entries ------------
\* The answer of the insert is not read: whether the store took the row or
\* answered with an error, the loop goes on.
InsertNext(type, after) ==
    LET entry == Head(daily.todo) IN
    /\ enqueued' = Append(enqueued, [user_id |-> entry.user_id, type |-> type,
                                     gearList |-> Dedupe(entry.gearNames)])
    /\ \E error \in BOOLEAN :
         rejected' = IF error THEN rejected \cup {Len(enqueued) + 1} ELSE rejected
    /\ daily' = IF Len(daily.todo) > 1
                THEN [daily EXCEPT !.todo = Tail(@)]
                ELSE Goto(daily, after)
    /\ UNCHANGED <<CONFIG, batchVars, serviceVars, gear_requests, selected, dailyRuns>>

InsertOverdue ==
    /\ proc = "running"
    /\ daily.pc = "insertOverdue"
    /\ InsertNext("overdue_reminder", "selectDueSoon")

\* ---- await select gear_requests due within two days ------------------------
FetchDueSoon ==
    /\ proc = "running"
    /\ daily.pc = "selectDueSoon"
    /\ \E dueSoonError \in BOOLEAN :
         LET dueSoonGear == SelectDueSoon(gear_requests) IN
         IF dueSoonError
         THEN /\ daily' = OnFetchError(daily, AfterDueSoon(daily.currentHour))
              /\ UNCHANGED selected
         ELSE /\ daily' = StartInserts(daily, "insertDueSoon",
                                       GroupByUser(dueSoonGear, <<>>),
                                       AfterDueSoon(daily.currentHour))
              /\ selected' = selected \cup {"due_soon_reminder"}
    /\ UNCHANGED <<CONFIG, batchVars, serviceVars, gear_requests, enqueued, rejected,
                   dailyRuns>>

InsertDueSoon ==
    /\ proc = "running"
    /\ daily.pc = "insertDueSoon"
    /\ InsertNext("due_soon_reminder", AfterDueSoon(daily.currentHour))

\* ---- await select active profiles (8 AM) -----------------------------------
\* Only data is read from the answer: on an error allUsers is null.
FetchClosing ==
    /\ proc = "running"
    /\ daily.pc = "selectClosing"
    /\ \E allUsers \in {<<>>, ActiveProfiles} :
         /\ daily' = StartInserts(daily, "insertClosing", Broadcast(allUsers),
                                  AfterClosing(daily.currentHour))
         /\ selected' = IF Len(allUsers) > 0 THEN selected \cup {"office_closing"}
                        ELSE selected
    /\ UNCHANGED <<CONFIG, batchVars, serviceVars, gear_requests, enqueued, rejected,
                   dailyRuns>>

InsertClosing ==
    /\ proc = "running"
    /\ daily.pc = "insertClosing"
    /\ InsertNext("office_closing", AfterClosing(daily.currentHour))

\* ---- await select active profiles (9 AM) -----------------------------------
FetchMorning ==
    /\ proc = "running"
    /\ daily.pc = "selectMorning"
    /\ \E allUsers \in {<<>>, ActiveProfiles} :
         /\ daily' = StartInserts(daily, "insertMorning", Broadcast(allUsers), "idle")
         /\ selected' = IF Len(allUsers) > 0 THEN selected \cup {"good_morning"}
                        ELSE selected
    /\ UNCHANGED <<CONFIG, batchVars, serviceVars, gear_requests, enqueued, rejected,
                   dailyRuns>>

InsertMorning ==
    /\ proc = "running"
    /\ daily.pc = "insertMorning"
    /\ InsertNext("good_morning", "idle")

NextDaily ==
    \/ DailyTick
    \/ FetchOverdue
    \/ InsertOverdue
    \/ FetchDueSoon
    \/ InsertDueSoon
    \/ FetchClosing
    \/ InsertClosing
    \/ FetchMorning
    \/ InsertMorning

\* one deployment, for the specifications that are not about the batch data:
\* batches of one record, one device, every record for its owner
OneDeployment ==
    /\ CONFIG.BATCH_LIMIT = 1
    /\ CONFIG.RATE_LIMIT_MAX_QUEUE = MaxCeiling
    /\ user_push_tokens = {[user_id |-> "u1", token |-> "ep1"]}
    /\ \A r \in Records : queue[r].user_id = "u1" /\ queue[r].max_retries = MaxRetriesBound

\* The reminder generator is studied over every table of loan records.
InitDaily ==
    /\ InitStarted
    /\ InitStores
    /\ OneDeployment
    /\ gear_requests \in LoanTables
    /\ InitDailyIdle

SpecDaily == InitDaily /\ [][NextDaily]_vars

\* ======================= shutdown ==========================================
\* the loop stopping the minute job only
StopFirst(jobs) == [i \in DOMAIN jobs |-> IF i = 1 THEN "stopped" ELSE jobs[i]]

\* cronJobs.forEach(job => job.stop())
StopAll(jobs) == [i \in DOMAIN jobs |-> "stopped"]

\* SIGINT or SIGTERM: gracefulShutdown().  It touches the server, the jobs and
\* a timer; a second signal repeats the same calls.
GracefulShutdown ==
    /\ proc = "running"
    /\ server' = "closed"
    /\ cronJobs' = StopAll(cronJobs)
    /\ exitTimer' = TRUE
    /\ UNCHANGED <<CONFIG, batchVars, dailyVars, env, proc>>

\* the callback of setTimeout(..., 5000): process.exit(0).  Whatever is
\* awaiting at that moment is never resumed.
ExitAfterGrace ==
    /\ proc = "running"
    /\ exitTimer
    /\ proc' = "exit0"
    /\ exitTimer' = FALSE
    /\ UNCHANGED <<CONFIG, batchVars, dailyVars, env, cronJobs, server>>

NextService == Next \/ NextDaily \/ GracefulShutdown \/ ExitAfterGrace

\* Signal handling is studied on one deployment with one overdue and one
\* due-soon loan record.
InitShutdown ==
    /\ InitStarted
    /\ InitStores
    /\ OneDeployment
    /\ gear_requests =
          << [user_id |-> "u1", status |-> "Approved", due_date |-> -1,
              gears |-> <<"Tripod">>],
             [user_id |-> "u2", status |-> "Approved", due_date |-> 0,
              gears |-> <<"Lens">>] >>
    /\ InitDailyIdle

\* A timer that is due fires: the event loop is never blocked, every handler
\* step ends at an await.
SpecShutdown == InitShutdown /\ [][NextService]_vars /\ WF_vars(ExitAfterGrace)

\* ======================= startup ===========================================
\* The module body from the VAPID configuration to the scheduling of the
\* jobs, in statement order; every exit is process.exit(1).
StartupResult(cfg, e) ==
    IF ~(cfg.VAPID_PUBLIC_KEY /\ cfg.VAPID_PRIVATE_KEY) THEN "exit1"
    ELSE IF ~(e["NEXT_PUBLIC_SUPABASE_URL"] /\ e["SUPABASE_SERVICE_ROLE_KEY"]) THEN "exit1"
    ELSE IF \E k \in RequiredEnv : ~e[k] THEN "exit1"
    ELSE "running"

\* The module body is synchronous: it runs in one step.
Startup ==
    /\ proc = "loading"
    /\ proc' = StartupResult(CONFIG, env)
    /\ IF StartupResult(CONFIG, env) = "running"
       THEN /\ CONFIG' = ConfigExported(CONFIG, env)
            /\ server' = "listening"
            /\ cronJobs' = <<"scheduled", "scheduled">>
       ELSE UNCHANGED <<CONFIG, server, cronJobs>>
    /\ UNCHANGED <<batchVars, dailyVars, env, exitTimer>>

NextStartup == Startup

\* node has evaluated the CONFIG literal and nothing after it
InitStartup ==
    /\ env \in [RequiredEnv -> BOOLEAN]
    /\ CONFIG \in ConfigLiteral
    /\ proc = "loading"
    /\ cronJobs = <<>>
    /\ server = "none"
    /\ exitTimer = FALSE
    /\ InitStores
    /\ gear_requests = <<>>
    /\ InitDailyIdle

SpecStartup == InitStartup /\ [][NextStartup]_vars

\* ======================= properties ========================================

\* the record ids of a fetched batch
BatchIds(batch) == {batch[i].id : i \in 1..Len(batch)}

\* cycle c takes a step that ends its work on a notification
EndsAttempt(c) ==
    /\ cycle[c].pc \in {"markSent", "resetPending", "markFailed"}
    /\ cycle'[c] # cycle[c]

\* cycle c takes its last step and returns the aggregate result
ReturnsProcessed(c) ==
    /\ cycle[c].pc # "idle"
    /\ cycle'[c].pc = "idle"
    /\ returned'.message = "Processed"

\* the status changes of the per-notification state machine
AllowedTransitions ==
    { <<"pending", "processing">>, <<"processing", "sent">>,
      <<"processing", "pending">>, <<"processing", "failed">> }

\* C1: a record's status changes only pending -> processing,
\* processing -> sent, processing -> pending, processing -> failed.
C1_OnlyAllowedTransitions ==
    [][\A r \in Records :
          queue'[r].status # queue[r].status
             => <<queue[r].status, queue'[r].status>> \in AllowedTransitions]_vars

\* C2: once a record is sent or failed, no step changes its status or its
\* retry_count.
C2_TerminalIsFinal ==
    [][\A r \in Records :
          queue[r].status \in {"sent", "failed"}
             => /\ queue'[r].status = queue[r].status
                /\ queue'[r].retry_count = queue[r].retry_count]_vars

\* C3: a processing attempt leaves the record sent if and only if at least
\* one delivery of that attempt succeeded.
C3_SentIffSomeDeliverySucceeded ==
    [][\A c \in Cycles :
          EndsAttempt(c)
             => (queue'[Notification(cycle[c]).id].status = "sent"
                    <=> cycle[c].tokenSent > 0)]_vars

\* the attempt delivered to at least one subscription and every delivery failed
AllDeliveriesFailed(cy) ==
    /\ \/ cy.pc = "resetPending"
       \/ cy.pc = "markFailed" /\ cy.why = "AllTokensFailed"
    /\ \E i \in 1..Len(cy.tokenRows) : HasEndpoint(cy.tokenRows[i].token)

\* C4: when every delivery of an attempt fails, the record becomes failed
\* exactly when its retry_count after this attempt's increment has reached
\* max_retries, and returns to pending otherwise.  (A count already above
\* max_retries, possible only for max_retries = 0, is read as reached.)
C4_FailedExactlyAtMaxRetries ==
    [][\A c \in Cycles :
          (EndsAttempt(c) /\ AllDeliveriesFailed(cycle[c]))
             => LET n == Notification(cycle[c]) IN
                IF n.retry_count + 1 >= n.max_retries
                THEN queue'[n.id].status = "failed"
                ELSE queue'[n.id].status = "pending"]_vars

\* C5: a failed record has retry_count <= max_retries.
C5_FailedWithinMaxRetries ==
    \A r \in Records :
        queue[r].status = "failed" => queue[r].retry_count <= queue[r].max_retries

\* C6: the stored retry_count of a record equals the number of processing
\* attempts made on it.
C6_RetryCountIsAttempts ==
    \A r \in Records : queue[r].retry_count = attempts[r]

\* C7: a record picked up while its recipient has no subscription gets no
\* delivery attempt, is failed when that cycle ends, and is in no batch
\* fetched afterwards.
C7_NoDevicesFailsForGood ==
    [][\A c \in Cycles :
          /\ (/\ cycle[c].pc = "selectTokens"
              /\ cycle'[c] # cycle[c]
              /\ ~ \E row \in user_push_tokens :
                      row.user_id = Notification(cycle[c]).user_id)
                => cycle'[c].pc = "markFailed"
          /\ ReturnsProcessed(c)
                => \A r \in zeroSubs[c] : queue'[r].status = "failed"
          /\ (cycle[c].pc = "selectPending" /\ cycle'[c].pc = "markProcessing")
                => BatchIds(cycle'[c].batch) \cap noDevices = {}]_vars

\* C8: an admitted cycle fetches exactly the min(BATCH_LIMIT, #pending)
\* pending records with the smallest created_at, oldest first; it fetches
\* nothing only when nothing is pending.
C8_BatchIsOldestPending ==
    [][\A c \in Cycles :
          LET pend == {r \in Records : queue[r].status = "pending"}
              batch == cycle'[c].batch
              ids == BatchIds(batch)
          IN /\ (cycle[c].pc = "selectPending" /\ cycle'[c].pc = "markProcessing")
                   => /\ Len(batch) = Min(CONFIG.BATCH_LIMIT, Cardinality(pend))
                      /\ Cardinality(ids) = Len(batch)
                      /\ ids \subseteq pend
                      /\ \A r \in ids, o \in pend \ ids :
                            queue[r].created_at < queue[o].created_at
                      /\ \A i, j \in 1..Len(batch) :
                            i < j => queue[batch[i].id].created_at
                                        < queue[batch[j].id].created_at
                      /\ \A i \in 1..Len(batch) :
                            batch[i].retry_count = queue[batch[i].id].retry_count
             /\ (cycle[c].pc = "selectPending" /\ returned'.message = "NoPending")
                   => pend = {}]_vars

\* a cycle has just fetched a full batch and a newer pending record is left out
C8_Witness ==
    \E c \in Cycles :
        /\ cycle[c].pc = "markProcessing"
        /\ cycle[c].idx = 1
        /\ Len(cycle[c].batch) = CONFIG.BATCH_LIMIT
        /\ \E o \in Records \ BatchIds(cycle[c].batch) :
              /\ queue[o].status = "pending"
              /\ \A r \in BatchIds(cycle[c].batch) :
                    queue[r].status = "pending"
                    /\ queue[r].created_at < queue[o].created_at

\* C9: a cycle is refused if and only if the estimate is at or above the
\* ceiling when it starts; a refused cycle returns processed = 0 with the
\* rate-limit reason, issues no collaborator call and changes no record, no
\* registry row and not the estimate.
C9_RefusedIffAtCeiling ==
    [][ticks' # ticks
          => IF rateLimitState.queueSize >= CONFIG.RATE_LIMIT_MAX_QUEUE
             THEN /\ returned'.message = "RateLimitExceeded"
                  /\ returned'.processed = 0
                  /\ cycle' = cycle
                  /\ queue' = queue
                  /\ user_push_tokens' = user_push_tokens
                  /\ rateLimitState' = rateLimitState
             ELSE /\ returned'.message # "RateLimitExceeded"
                  /\ \E c \in Cycles :
                        cycle[c].pc = "idle" /\ cycle'[c].pc = "selectPending"]_vars

\* a cycle was just refused at the ceiling while a record is pending
C9_Witness ==
    /\ returned.message = "RateLimitExceeded"
    /\ rateLimitState.queueSize >= CONFIG.RATE_LIMIT_MAX_QUEUE
    /\ \E r \in Records : queue[r].status = "pending"

\* C10: a cycle that fetched m records ends with the estimate max(0, m - k),
\* where k counts the records it finished and every record it left sent or
\* failed is counted.
C10_ReleaseCountsEveryFinishedRecord ==
    [][\A c \in Cycles :
          ReturnsProcessed(c)
             => LET m == Len(cycle[c].batch) IN
                \E k \in (returned'.sent + returned'.failed)..m :
                    rateLimitState'.queueSize = Max(0, m - k)]_vars

\* ---- device registry (C11, C12) ------------------------------------------
\* the rows of the registry that carry the descriptor of row
SameToken(row) == {r \in user_push_tokens : r.token = row.token}

\* cycle c receives the outcome of a delivery in this step
DeliveryReturns(c) == cycle[c].pc = "send" /\ cycle'[c] # cycle[c]

\* C11: during an attempt a subscription is deleted if and only if its
\* delivery was answered 410 or 404.  A delivery that succeeds or fails with
\* anything else leaves the registry as it is and does not lead to a
\* deletion; a delivery answered 410/404 makes the deletion of exactly that
\* descriptor the next step of the attempt, whatever the record ends as; and
\* the registry changes in no other step.
C11_DeletedIffGone ==
    [][ /\ \A c \in Cycles :
             LET cy == cycle[c] IN
             /\ DeliveryReturns(c) =>
                   /\ user_push_tokens' = user_push_tokens
                   /\ (cycle'[c].pc = "deleteToken") <=> (cycle'[c].error \in {"410", "404"})
                   /\ cycle'[c].pc = "deleteToken" =>
                         /\ cycle'[c].tokenRows = cy.tokenRows
                         /\ cycle'[c].tidx = cy.tidx
             /\ (cy.pc = "deleteToken" /\ cycle'[c] # cy) =>
                   /\ cy.error \in {"410", "404"}
                   /\ user_push_tokens' = user_push_tokens \ SameToken(cy.tokenRows[cy.tidx])
        /\ user_push_tokens' # user_push_tokens =>
             \E c \in Cycles : cycle[c].pc = "deleteToken" /\ cycle'[c] # cycle[c]
      ]_vars

\* Two devices, one answered 410/404 and one delivered: the record is about to
\* be marked sent, the failed descriptor is gone from the registry and the
\* other one is still there.
C11_Witness ==
    \E c \in Cycles :
       LET cy == cycle[c] IN
       /\ ticks = 1
       /\ cy.pc = "markSent"
       /\ Len(cy.tokenRows) = 2
       /\ cy.tokenSent = 1
       /\ \E i, j \in 1..2 :
             /\ cy.tokenRows[i] \notin user_push_tokens
             /\ cy.tokenRows[i].token \in gone
             /\ cy.tokenRows[j] \in user_push_tokens
             /\ HasEndpoint(cy.tokenRows[j].token)

\* C12: once the transport has answered 410/404 for a descriptor, no cycle
\* (the same, a later or a concurrent one) starts another delivery to that
\* descriptor.
C12_NoDeliveryAfterGone ==
    [][ \A c \in Cycles :
          (cycle'[c] # cycle[c] /\ cycle'[c].pc = "send") =>
             cycle'[c].tokenRows[cycle'[c].tidx].token \notin gone ]_vars

\* C13: at most one batch cycle is in progress at any time.
C13_AtMostOneCycle ==
    Cardinality({c \in Cycles : cycle[c].pc # "idle"}) <= 1

\* ---- shutdown (C14, C15) ----------------------------------------------------
\* a step of the batch cycle c other than its start
CycleStep(c) ==
    \/ FetchPending(c) \/ MarkProcessing(c) \/ FetchTokens(c) \/ Send(c)
    \/ DeleteToken(c) \/ MarkSent(c) \/ ResetPending(c) \/ MarkFailed(c)

\* a step of the reminder run other than its start
DailyStep ==
    \/ FetchOverdue \/ InsertOverdue \/ FetchDueSoon \/ InsertDueSoon
    \/ FetchClosing \/ InsertClosing \/ FetchMorning \/ InsertMorning

\* gracefulShutdown has run (nothing else closes the server)
Signalled == server = "closed"

\* C14: after a shutdown signal no batch cycle and no reminder run starts (no
\* invocation of either handler at all); the signal handler leaves every
\* cycle in flight and every store as it is, and until the process exits each
\* cycle in flight can take its next step; and the process terminates.
C14_ShutdownStopsAdmission ==
    /\ [][ /\ Signalled =>
                /\ ticks' = ticks
                /\ dailyRuns' = dailyRuns
                /\ \A c \in Cycles : cycle[c].pc = "idle" => cycle'[c].pc = "idle"
                /\ daily.pc = "idle" => daily'.pc = "idle"
           /\ (~Signalled /\ Signalled') => UNCHANGED <<CONFIG, batchVars, dailyVars, proc>>
         ]_vars
    /\ [](Signalled /\ proc = "running" =>
            /\ \A c \in Cycles : cycle[c].pc # "idle" => ENABLED CycleStep(c)
            /\ daily.pc # "idle" => ENABLED DailyStep)
    /\ (Signalled ~> proc = "exit0")

\* The signal has been handled while a delivery call of a batch cycle is
\* outstanding and both jobs had firings left.
C14_Witness ==
    /\ Signalled
    /\ proc = "running"
    /\ ticks < MaxTicks
    /\ dailyRuns < MaxDailyRuns
    /\ \E c \in Cycles : cycle[c].pc = "send"

\* C15: when the process exits after a shutdown signal, no batch cycle is in
\* progress and no record is left in status processing.
C15_ExitLeavesNothingInFlight ==
    proc = "exit0" =>
       /\ \A c \in Cycles : cycle[c].pc = "idle"
       /\ \A r \in Records : queue[r].status # "processing"

\* ---- reminder aggregation (C16) --------------------------------------------
\* a loan record is outstanding and its due date is before today (overdue),
\* or from today to two days from today (due soon)
Matches(type, request) ==
    /\ request.status = "Approved"
    /\ IF type = "overdue_reminder"
       THEN request.due_date < 0
       ELSE request.due_date \in 0..DueSoonDays

\* the loan records of recipient u that match the reminder kind
MatchingOf(type, u) ==
    {i \in 1..Len(gear_requests) :
        gear_requests[i].user_id = u /\ Matches(type, gear_requests[i])}

\* the distinct item names of those records
ItemNames(type, u) ==
    UNION { Range(gear_requests[i].gears) \ {""} : i \in MatchingOf(type, u) }

\* the notifications of that kind enqueued for u in this run
EnqueuedFor(type, u) ==
    {i \in 1..Len(enqueued) : enqueued[i].type = type /\ enqueued[i].user_id = u}

\* C16: when a reminder run has returned, for each of the kinds overdue and
\* due-soon and each recipient: without a matching loan record no
\* notification of the kind was enqueued; with one, and the kind's select
\* having returned the records, exactly one was enqueued and its item list
\* holds each distinct item name of the recipient's matching records exactly
\* once.
C16_OnePerRecipientDistinctNames ==
    (daily.pc = "idle" /\ dailyRuns > 0) =>
       \A type \in {"overdue_reminder", "due_soon_reminder"}, u \in Users :
          IF MatchingOf(type, u) = {}
          THEN EnqueuedFor(type, u) = {}
          ELSE type \in selected =>
                 /\ Cardinality(EnqueuedFor(type, u)) = 1
                 /\ \A i \in EnqueuedFor(type, u) :
                       /\ Range(enqueued[i].gearList) = ItemNames(type, u)
                       /\ Len(enqueued[i].gearList) = Cardinality(ItemNames(type, u))

\* Two overdue loan records of u1, both of a "Tripod": the run has returned
\* and enqueued one overdue reminder for u1 that lists "Tripod" once.
C16_Witness ==
    /\ daily.pc = "idle"
    /\ dailyRuns > 0
    /\ Len(gear_requests) = 2
    /\ \A i \in 1..2 :
          /\ gear_requests[i].user_id = "u1"
          /\ Matches("overdue_reminder", gear_requests[i])
          /\ gear_requests[i].gears = <<"Tripod">>
    /\ \E i \in 1..Len(enqueued) :
          enqueued[i] = [user_id |-> "u1", type |-> "overdue_reminder",
                         gearList |-> <<"Tripod">>]

\* ---- startup (C17) ----------------------------------------------------------
\* C17: with all four required environment variables set, the module body
\* does not exit the process: it ends with the process running, both cron
\* jobs scheduled and the health server listening.
C17_StartsWhenEnvSet ==
    ((\A k \in RequiredEnv : env[k]) /\ proc # "loading") =>
       /\ proc = "running"
       /\ cronJobs = <<"scheduled", "scheduled">>
       /\ server = "listening"

\* ---- fan-out and fault isolation (C18, C19, C20) ----------------------------
\* the fetched rows a delivery call has been made for
Delivered(cy) ==
    {i \in 1..Len(cy.tokenRows) : i < cy.tidx /\ HasEndpoint(cy.tokenRows[i].token)}

\* C18: when an attempt ends, a delivery call has been made for every fetched
\* subscription that has an endpoint, whatever happened on the other rows.
C18_EveryDeviceAttempted ==
    [][\A c \in Cycles :
          EndsAttempt(c) =>
             \A i \in 1..Len(cycle[c].tokenRows) :
                HasEndpoint(cycle[c].tokenRows[i].token) => i \in Delivered(cycle[c])]_vars

\* cycle c completes the update that follows a caught fault
FaultHandled(c) ==
    /\ cycle[c].pc = "markFailed"
    /\ cycle[c].why = "Fault"
    /\ cycle'[c] # cycle[c]

\* C19: the update after a fault on a record sets the record failed with the
\* fault's description; the cycle goes on with the next record of its batch,
\* or, after the last one, releases the rate limiter and returns the
\* aggregate counts; and every record the cycle caught a fault on is failed
\* with that description when the cycle returns.
C19_FaultIsolatedToRecord ==
    [][\A c \in Cycles :
          LET cy == cycle[c] IN
          /\ FaultHandled(c) =>
                /\ queue'[Notification(cy).id].status = "failed"
                /\ queue'[Notification(cy).id].error_message = "Fault"
                /\ IF cy.idx < Len(cy.batch)
                   THEN /\ cycle'[c].pc = "markProcessing"
                        /\ cycle'[c].batch = cy.batch
                        /\ cycle'[c].idx = cy.idx + 1
                   ELSE /\ ReturnsProcessed(c)
                        /\ returned'.failed = cy.failed + 1
                        /\ rateLimitState'.queueSize <= rateLimitState.queueSize
          /\ ReturnsProcessed(c) =>
                /\ cy.idx = Len(cy.batch)
                /\ \A r \in faulted[c] :
                      queue'[r].status = "failed" /\ queue'[r].error_message = "Fault"]_vars

\* cycle c is between its first delivery call for the record and the update
\* that writes the outcome
Delivering(cy) ==
    \/ cy.pc \in {"send", "deleteToken"}
    \/ cy.pc \in {"markSent", "resetPending", "markFailed"} /\ Delivered(cy) # {}

\* C20: from the first delivery call for a record to the update that writes
\* the outcome, the record is stored as processing with the retry_count the
\* cycle fetched plus one.
C20_ProcessingBeforeDelivery ==
    \A c \in Cycles :
       Delivering(cycle[c]) =>
          LET n == Notification(cycle[c]) IN
          /\ queue[n.id].status = "processing"
          /\ queue[n.id].retry_count = n.retry_count + 1

\* ---- cycle boundary (C21) ---------------------------------------------------
\* C21: when a batch cycle returns, none of the records it fetched is stored
\* as processing: each is sent, failed or pending.
C21_NothingLeftProcessing ==
    [][\A c \in Cycles :
          ReturnsProcessed(c) =>
             \A r \in BatchIds(cycle[c].batch) : queue'[r].status # "processing"]_vars

\* ---- independence of the reminder sub-tasks (C22) ---------------------------
\* position of a sub-task in a run: overdue, due-soon, office-closing, good-morning
SubTask(pc) ==
    CASE pc \in {"selectOverdue", "insertOverdue"} -> 1
      [] pc \in {"selectDueSoon", "insertDueSoon"} -> 2
      [] pc \in {"selectClosing", "insertClosing"} -> 3
      [] pc \in {"selectMorning", "insertMorning"} -> 4
      [] OTHER -> 0

SelectOf(k) ==
    CASE k = 1 -> "selectOverdue"
      [] k = 2 -> "selectDueSoon"
      [] k = 3 -> "selectClosing"
      [] k = 4 -> "selectMorning"
      [] OTHER -> "idle"

\* the sub-tasks a run at the given hour has to execute
DueSubTasks(hour) ==
    {1, 2} \cup (IF hour = OfficeClosingHour THEN {3} ELSE {})
           \cup (IF hour = GoodMorningHour THEN {4} ELSE {})

\* the sub-task that has to follow sub-task k in a run at the given hour; 0: none
FollowingSubTask(k, hour) ==
    LET later == {j \in DueSubTasks(hour) : j > k} IN
    IF later = {} THEN 0 ELSE CHOOSE j \in later : \A i \in later : j <= i

InInsert(pc) == pc \in {"insertOverdue", "insertDueSoon", "insertClosing", "insertMorning"}

\* C22: whatever failed earlier in a reminder run (a select that reported an
\* error, an insert the store rejected), every step of the run stays in its
\* sub-task or moves to the select of the next sub-task due at that hour;
\* a sub-task is left only when each of its entries was handed to an insert,
\* and the run returns only from the last sub-task due at that hour.
C22_SubTasksIndependent ==
    [][(daily.pc # "idle" /\ daily' # daily) =>
          LET k    == SubTask(daily.pc)
              k2   == SubTask(daily'.pc)
              follow == FollowingSubTask(k, daily.currentHour)
          IN  /\ k2 \in {k, follow}
              /\ k2 # k => daily'.pc = SelectOf(follow)
              /\ InInsert(daily.pc) =>
                    /\ Len(enqueued') = Len(enqueued) + 1
                    /\ enqueued'[Len(enqueued')].user_id = Head(daily.todo).user_id
                    /\ k2 # k => Len(daily.todo) = 1
              /\ (~InInsert(daily.pc) /\ k2 = k) =>
                    /\ InInsert(daily'.pc)
                    /\ daily'.todo # <<>>]_vars

\* a run has returned in which the overdue select reported an error although
\* a loan was overdue, an insert of a due-soon reminder was rejected, and the
\* office-closing notifications were enqueued and accepted all the same
C22_Witness ==
    /\ daily.pc = "idle"
    /\ dailyRuns > 0
    /\ SelectOverdue(gear_requests) # <<>>
    /\ "overdue_reminder" \notin selected
    /\ \E i \in rejected : enqueued[i].type = "due_soon_reminder"
    /\ \A u \in Range(ActiveProfiles) :
          \E i \in (1..Len(enqueued)) \ rejected :
             enqueued[i].type = "office_closing" /\ enqueued[i].user_id = u

\* ---- refusal by the rate limit (C23) ----------------------------------------
\* only a running cycle writes the estimate (at its fetch and at its return)
NoCycleInFlight == \A c \in Cycles : cycle[c].pc = "idle"

\* C23: a refusal is never permanent. Only a cycle in flight changes the
\* estimate, so a tick refused while no cycle is in flight is refused again at
\* every later tick: the last tick was never refused with no cycle in flight.
C23_RefusalNotPermanent ==
    ~(/\ returned = RateLimitResult
      /\ NoCycleInFlight
      /\ RateLimited(rateLimitState.queueSize, CONFIG.RATE_LIMIT_MAX_QUEUE))

====
